---- MODULE Spec2Model ----
(***************************************************************************)
(* State-benchmark harnesses (ethrex and reth) of weiihann/statoor.        *)
(* Each harness reads a line-oriented workload from stdin, accumulates the *)
(* operations, and on compute_root runs the two measured phases and prints *)
(* one result record.  Both harnesses are modelled side by side; the       *)
(* variable harness says which binary the run is of.                       *)
(***************************************************************************)
EXTENDS Integers, Sequences, FiniteSets, TLC

\* ------------------------------------------------------------------------
\* Bounds of the model
\* ------------------------------------------------------------------------
\* number of input lines a run may read
MaxLines == 3
\* number of node deltas per table the state engine may return (ethrex)
MaxNodes == 1
\* number of characters after the optional 0x of a hex field decoded on its own
MaxHexLen == 3
\* number of lines given to the two harnesses run side by side
MaxPairLines == 3

\* ------------------------------------------------------------------------
\* Strings are sequences of one-character strings; bytes are 0..255
\* ------------------------------------------------------------------------
Digits == <<"0","1","2","3","4","5","6","7","8","9","a","b","c","d","e","f">>

HexChars == {Digits[i] : i \in 1..16}

HexVal(c) == (CHOOSE i \in 1..16 : Digits[i] = c) - 1

Rep(n, c) == [i \in 1..n |-> c]

Ok(v) == [ok |-> TRUE, val |-> v]

Err(m) == [ok |-> FALSE, msg |-> m]

\* Option<T>: None is the empty set, Some(v) the singleton
None == {}

Some(v) == {v}

Unwrap(o) == CHOOSE v \in o : TRUE

\* str::strip_prefix("0x").unwrap_or(s)
strip_prefix_0x(s) ==
    IF Len(s) >= 2 /\ s[1] = "0" /\ s[2] = "x" THEN SubSeq(s, 3, Len(s)) ELSE s

\* hex::decode of the hex crate: odd length and non-hex characters are errors
hex_crate_decode(s) ==
    IF Len(s) % 2 # 0 THEN Err("odd number of digits")
    ELSE IF \E i \in 1..Len(s) : s[i] \notin HexChars THEN Err("invalid character")
    ELSE Ok([k \in 1..(Len(s) \div 2) |-> 16 * HexVal(s[2*k - 1]) + HexVal(s[2*k])])

\* U256::from_big_endian / U256::from_be_slice
RECURSIVE from_big_endian(_)
from_big_endian(bytes) ==
    IF bytes = <<>> THEN 0
    ELSE 256 * from_big_endian(SubSeq(bytes, 1, Len(bytes) - 1)) + bytes[Len(bytes)]

\* keccak256: an injective constructor over the byte strings of the model
keccak256(bytes) == [keccak |-> bytes]

\* ethrex_common::constants::EMPTY_KECCACK_HASH = keccak256 of no bytes
EMPTY_KECCACK_HASH == keccak256(<<>>)

\* ------------------------------------------------------------------------
\* ethrex harness: field parsers
\* ------------------------------------------------------------------------
ethrex_hex_decode(s) ==
    LET t == strip_prefix_0x(s)
        r == IF Len(t) % 2 # 0 THEN hex_crate_decode(<<"0">> \o t)
             ELSE hex_crate_decode(t)
    IN IF r.ok THEN r ELSE Err("decode hex")

ethrex_parse_address(s) ==
    LET r == ethrex_hex_decode(s)
    IN IF ~r.ok THEN r
       ELSE IF Len(r.val) # 20 THEN Err("invalid address")
       ELSE r

ethrex_parse_h256(s) ==
    LET r == ethrex_hex_decode(s)
    IN IF ~r.ok THEN r
       ELSE IF Len(r.val) # 32 THEN Err("invalid H256")
       ELSE r

ethrex_parse_u256(s) ==
    IF s = <<>> THEN Ok(0)
    ELSE LET r == ethrex_hex_decode(s)
         IN IF ~r.ok THEN r ELSE Ok(from_big_endian(r.val))

\* ------------------------------------------------------------------------
\* reth harness: field parsers
\* ------------------------------------------------------------------------
\* the iterator of hex_decode from chunk k on: the first failing chunk
\* decides the diagnostic
RECURSIVE reth_hex_decode_from(_, _, _)
reth_hex_decode_from(s, k, acc) ==
    IF 2 * k - 1 > Len(s) THEN Ok(acc)
    ELSE IF 2 * k > Len(s) THEN Err("odd hex length")
    ELSE IF s[2*k - 1] \notin HexChars \/ s[2*k] \notin HexChars THEN Err("decode hex")
    ELSE reth_hex_decode_from(s, k + 1,
             Append(acc, 16 * HexVal(s[2*k - 1]) + HexVal(s[2*k])))

reth_hex_decode(s) == reth_hex_decode_from(s, 1, <<>>)

reth_parse_hex(s) == reth_hex_decode(strip_prefix_0x(s))

reth_parse_u256(s) ==
    IF s = <<>> THEN Ok(0)
    ELSE LET r == reth_hex_decode(strip_prefix_0x(s))
         IN IF ~r.ok THEN r ELSE Ok(from_big_endian(r.val))

\* str::parse::<Address>(): optional 0x, then exactly 20 bytes of hex
reth_parse_address(s) ==
    LET r == hex_crate_decode(strip_prefix_0x(s))
    IN IF r.ok /\ Len(r.val) = 20 THEN r ELSE Err("parse address")

\* str::parse::<B256>(): optional 0x, then exactly 32 bytes of hex
reth_parse_b256(s) ==
    LET r == hex_crate_decode(strip_prefix_0x(s))
    IN IF r.ok /\ Len(r.val) = 32 THEN r ELSE Err("parse B256")

\* ------------------------------------------------------------------------
\* Input lines.  raw is "empty" for the empty line, "malformed" for text
\* serde_json rejects, "object" for a JSON object with an op field; the
\* other fields carry serde's defaults when absent.
\* ------------------------------------------------------------------------
Line(raw, op, address, balance, nonce, code, slot, value) ==
    [raw |-> raw, op |-> op, address |-> address, balance |-> balance,
     nonce |-> nonce, code |-> code, slot |-> slot, value |-> value]

Addr1Str == Rep(39, "0") \o <<"1">>

Addr2Str == <<"0", "x">> \o Rep(39, "0") \o <<"2">>

ShortAddrStr == <<"0", "x", "0", "1">>

Slot1Str == <<"0", "x">> \o Rep(63, "0") \o <<"1">>

Slot2Str == Rep(63, "0") \o <<"2">>

AddrStrs == {Addr1Str, Addr2Str}

\* (balance, nonce) pairs of the create_account lines
Funds == {<<(<<"0", "x", "6", "4">>), 1>>, <<(<<"2", "a">>), 2>>}

CodeStrs == {<<"0", "x", "6", "0">>, <<"6", "0", "0", "1">>}

NonHexStr == <<"0", "x", "g", "g">>

Val1Str == <<"0", "x", "2", "a">>

Val2Str == <<"0", "7">>

CreateLines ==
    {Line("object", "create_account", a, f[1], f[2], <<>>, <<>>, <<>>) :
        a \in AddrStrs, f \in Funds}

SetCodeLines ==
    {Line("object", "set_code", a, <<>>, 0, c, <<>>, <<>>) :
        a \in AddrStrs, c \in CodeStrs}

SetStorageLines ==
    {Line("object", "set_storage", w[1], <<>>, 0, <<>>, w[2], w[3]) :
        w \in {<<Addr1Str, Slot1Str, Val1Str>>, <<Addr1Str, Slot1Str, Val2Str>>,
               <<Addr1Str, Slot2Str, Val1Str>>, <<Addr2Str, Slot1Str, Val2Str>>}}

ComputeRootLine == Line("object", "compute_root", <<>>, <<>>, 0, <<>>, <<>>, <<>>)

EmptyLine == Line("empty", "", <<>>, <<>>, 0, <<>>, <<>>, <<>>)

MalformedLine == Line("malformed", "", <<>>, <<>>, 0, <<>>, <<>>, <<>>)

UnknownOpLine == Line("object", "delete_account", Addr1Str, <<>>, 0, <<>>, <<>>, <<>>)

\* well-formed JSON whose fields do not decode
BadFieldLines ==
    {Line("object", "create_account", ShortAddrStr, <<"0", "x", "6", "4">>, 1, <<>>, <<>>, <<>>),
     Line("object", "set_code", Addr1Str, <<>>, 0, NonHexStr, <<>>, <<>>),
     Line("object", "set_storage", Addr2Str, <<>>, 0, <<>>, ShortAddrStr, Val1Str)}

GoodLines == CreateLines \cup SetCodeLines \cup SetStorageLines

Workload ==
    GoodLines \cup BadFieldLines
        \cup {ComputeRootLine, EmptyLine, MalformedLine, UnknownOpLine}

\* serde_json::from_str::<Operation>(&line)
from_str(line) == IF line.raw = "object" THEN Ok(line) ELSE Err("decode operation")


\* ------------------------------------------------------------------------
\* State
\* ------------------------------------------------------------------------
VARIABLES
    harness,            \* "ethrex" or "reth": the binary that runs
    pc,                 \* position of the run in main / emit_result
    lines,              \* the lines main has taken from stdin, in order
    eof,                \* stdin ended while main was reading
    updates,            \* ethrex: HashMap<Address, AccountUpdate>
    accounts_created,   \* ethrex counters
    contracts_created,
    storage_slots,
    update_list,        \* ethrex: Vec<AccountUpdate> handed to the state engine
    account_map,        \* reth: HashMap<Address, Account>
    pending_accounts,   \* reth: Vec<(B256, Account)>
    pending_bytecodes,  \* reth: Vec<(B256, Bytecode)>
    pending_storage,    \* reth: Vec<(B256, StorageEntry)>
    accounts,           \* reth counters
    contracts,
    slots,
    put_i,              \* entries put so far by the loop pc is in
    tx,                 \* calls made on the store's write transaction
    events,             \* phase boundaries passed, in order
    peak_memory,        \* the sampled peak memory
    stdout,             \* what was written to the output stream
    stderr,             \* what was written to the error stream
    exit_code,          \* None while running, Some(code) once the process ended
    hex_in,             \* the hex field a decoder is applied to
    hex_out,            \* None, or Some(what the decoder returned)
    failed              \* the harnesses that ended fatally, when both run on one input

ethrexVars == <<updates, accounts_created, contracts_created, storage_slots>>

rethVars ==
    <<account_map, pending_accounts, pending_bytecodes, pending_storage,
      accounts, contracts, slots>>

phaseVars == <<update_list, put_i, tx, events, peak_memory>>

outVars == <<stdout, stderr, exit_code>>

auxVars == <<hex_in, hex_out, failed>>

vars == <<harness, pc, lines, eof, ethrexVars, rethVars, phaseVars, outVars, auxVars>>

\* the state of a harness when main reaches its read loop
ProgramStart ==
    /\ pc = "read"
    /\ lines = <<>>
    /\ eof = FALSE
    /\ updates = <<>>
    /\ accounts_created = 0
    /\ contracts_created = 0
    /\ storage_slots = 0
    /\ update_list = <<>>
    /\ account_map = <<>>
    /\ pending_accounts = <<>>
    /\ pending_bytecodes = <<>>
    /\ pending_storage = <<>>
    /\ accounts = 0
    /\ contracts = 0
    /\ slots = 0
    /\ put_i = 0
    /\ tx = [begun |-> 0, puts |-> 0, committed |-> 0]
    /\ events = <<>>
    /\ peak_memory = 0
    /\ stdout = <<>>
    /\ stderr = <<>>
    /\ exit_code = None

Init ==
    /\ harness \in {"ethrex", "reth"}
    /\ ProgramStart
    /\ hex_in = <<>>
    /\ hex_out = None
    /\ failed = {}

\* a fatal that prints its diagnostic and lets the run go on
fatal_continues(msg) ==
    /\ stderr' = Append(stderr, msg)
    /\ exit_code' = exit_code
    /\ pc' = pc

\* fatal: one diagnostic on the error stream, then process::exit(1)
fatal(msg) ==
    /\ stderr' = Append(stderr, msg)
    /\ exit_code' = Some(1)
    /\ pc' = "exited"

\* map.insert(k, v) of a HashMap
Insert(m, k, v) == [x \in DOMAIN m \cup {k} |-> IF x = k THEN v ELSE m[x]]

\* ------------------------------------------------------------------------
\* ethrex harness: the arms of the operation match
\* ------------------------------------------------------------------------
AccountUpdate_new(addr) ==
    [address |-> addr, info |-> None, code |-> None, added_storage |-> <<>>]

\* updates.entry(addr).or_insert_with(|| AccountUpdate::new(addr))
entry_or_insert(m, addr) ==
    IF addr \in DOMAIN m THEN m ELSE Insert(m, addr, AccountUpdate_new(addr))

\* Code::from_bytecode
Code_from_bytecode(bytes) == [hash |-> keccak256(bytes), bytecode |-> bytes]

EthrexState ==
    [updates |-> updates, accounts_created |-> accounts_created,
     contracts_created |-> contracts_created, storage_slots |-> storage_slots]

\* a create_account that starts the address's record afresh
ethrex_create_account_resets_record(st, addr, balance, nonce) ==
    LET info == [code_hash |-> EMPTY_KECCACK_HASH, balance |-> balance, nonce |-> nonce]
    IN [st EXCEPT !.updates =
                      Insert(@, addr, [AccountUpdate_new(addr) EXCEPT !.info = Some(info)]),
                  !.accounts_created = @ + 1]

ethrex_create_account(st, addr, balance, nonce) ==
    LET m == entry_or_insert(st.updates, addr)
        info == [code_hash |-> EMPTY_KECCACK_HASH, balance |-> balance, nonce |-> nonce]
    IN [st EXCEPT !.updates = [m EXCEPT ![addr].info = Some(info)],
                  !.accounts_created = @ + 1]

\* a set_code that rebuilds the account info instead of merging into it
ethrex_set_code_rebuilds(st, addr, bytecode) ==
    LET m == entry_or_insert(st.updates, addr)
        code == Code_from_bytecode(bytecode)
        info == [code_hash |-> code.hash, balance |-> 0, nonce |-> 0]
    IN [st EXCEPT !.updates = [m EXCEPT ![addr].info = Some(info),
                                        ![addr].code = Some(code)],
                  !.contracts_created = @ + 1]

ethrex_set_code(st, addr, bytecode) ==
    LET m == entry_or_insert(st.updates, addr)
        code == Code_from_bytecode(bytecode)
        info == IF m[addr].info # None
                THEN [Unwrap(m[addr].info) EXCEPT !.code_hash = code.hash]
                ELSE [code_hash |-> code.hash, balance |-> 0, nonce |-> 0]
    IN [st EXCEPT !.updates = [m EXCEPT ![addr].info = Some(info),
                                        ![addr].code = Some(code)],
                  !.contracts_created = @ + 1]

\* a set_storage that counts a slot only the first time it is written
ethrex_set_storage_counts_distinct(st, addr, slot, value) ==
    LET m == entry_or_insert(st.updates, addr)
    IN [st EXCEPT !.updates =
                      [m EXCEPT ![addr].added_storage = Insert(@, slot, value)],
                  !.storage_slots =
                      IF slot \in DOMAIN m[addr].added_storage THEN @ ELSE @ + 1]

ethrex_set_storage(st, addr, slot, value) ==
    LET m == entry_or_insert(st.updates, addr)
    IN [st EXCEPT !.updates =
                      [m EXCEPT ![addr].added_storage = Insert(@, slot, value)],
                  !.storage_slots = @ + 1]

EthrexApply(st) ==
    /\ updates' = st.updates
    /\ accounts_created' = st.accounts_created
    /\ contracts_created' = st.contracts_created
    /\ storage_slots' = st.storage_slots

\* main takes the next line from stdin
EthrexReading == harness = "ethrex" /\ pc = "read" /\ ~eof /\ Len(lines) < MaxLines

EthrexReadError ==
    /\ EthrexReading
    /\ fatal("read stdin")
    /\ UNCHANGED <<auxVars, harness, lines, eof, ethrexVars, rethVars, phaseVars, stdout>>

EthrexSkipEmpty ==
    /\ EthrexReading
    /\ \E line \in Workload :
        /\ line.raw = "empty"
        /\ lines' = Append(lines, line)
    /\ UNCHANGED <<auxVars, harness, pc, eof, ethrexVars, rethVars, phaseVars, outVars>>

EthrexDecodeError ==
    /\ EthrexReading
    /\ \E line \in Workload :
        /\ line.raw # "empty"
        /\ ~from_str(line).ok
        /\ lines' = Append(lines, line)
        /\ fatal("decode operation")
    /\ UNCHANGED <<auxVars, harness, eof, ethrexVars, rethVars, phaseVars, stdout>>

EthrexCreateAccount ==
    /\ EthrexReading
    /\ \E line \in Workload :
        /\ line.raw # "empty"
        /\ from_str(line).ok
        /\ line.op = "create_account"
        /\ lines' = Append(lines, line)
        /\ LET addr == ethrex_parse_address(line.address)
               balance == ethrex_parse_u256(line.balance)
           IN IF ~addr.ok
              THEN fatal(addr.msg) /\ UNCHANGED <<ethrexVars, stdout>>
              ELSE IF ~balance.ok
              THEN fatal(balance.msg) /\ UNCHANGED <<ethrexVars, stdout>>
              ELSE /\ EthrexApply(ethrex_create_account(EthrexState, addr.val,
                                                        balance.val, line.nonce))
                   /\ UNCHANGED <<pc, outVars>>
    /\ UNCHANGED <<auxVars, harness, eof, rethVars, phaseVars>>

EthrexSetCode ==
    /\ EthrexReading
    /\ \E line \in Workload :
        /\ line.raw # "empty"
        /\ from_str(line).ok
        /\ line.op = "set_code"
        /\ lines' = Append(lines, line)
        /\ LET addr == ethrex_parse_address(line.address)
               bytecode == ethrex_hex_decode(line.code)
           IN IF ~addr.ok
              THEN fatal(addr.msg) /\ UNCHANGED <<ethrexVars, stdout>>
              ELSE IF ~bytecode.ok
              THEN fatal(bytecode.msg) /\ UNCHANGED <<ethrexVars, stdout>>
              ELSE /\ EthrexApply(ethrex_set_code(EthrexState, addr.val, bytecode.val))
                   /\ UNCHANGED <<pc, outVars>>
    /\ UNCHANGED <<auxVars, harness, eof, rethVars, phaseVars>>

EthrexSetStorage ==
    /\ EthrexReading
    /\ \E line \in Workload :
        /\ line.raw # "empty"
        /\ from_str(line).ok
        /\ line.op = "set_storage"
        /\ lines' = Append(lines, line)
        /\ LET addr == ethrex_parse_address(line.address)
               slot == ethrex_parse_h256(line.slot)
               value == ethrex_parse_u256(line.value)
           IN IF ~addr.ok
              THEN fatal(addr.msg) /\ UNCHANGED <<ethrexVars, stdout>>
              ELSE IF ~slot.ok
              THEN fatal(slot.msg) /\ UNCHANGED <<ethrexVars, stdout>>
              ELSE IF ~value.ok
              THEN fatal(value.msg) /\ UNCHANGED <<ethrexVars, stdout>>
              ELSE /\ EthrexApply(ethrex_set_storage(EthrexState, addr.val,
                                                     slot.val, value.val))
                   /\ UNCHANGED <<pc, outVars>>
    /\ UNCHANGED <<auxVars, harness, eof, rethVars, phaseVars>>

EthrexUnknownOp ==
    /\ EthrexReading
    /\ \E line \in Workload :
        /\ line.raw # "empty"
        /\ from_str(line).ok
        /\ line.op \notin {"create_account", "set_code", "set_storage", "compute_root"}
        /\ lines' = Append(lines, line)
        /\ fatal("unknown operation")
    /\ UNCHANGED <<auxVars, harness, eof, ethrexVars, rethVars, phaseVars, stdout>>

\* an end of input that is taken for a compute_root
EthrexNoComputeRoot_finalizes ==
    /\ harness = "ethrex" /\ pc = "read" /\ ~eof
    /\ eof' = TRUE
    /\ pc' = "trie"
    /\ UNCHANGED <<auxVars, harness, lines, ethrexVars, rethVars, phaseVars, outVars>>

\* stdin ends before any compute_root: the for loop falls through
EthrexNoComputeRoot ==
    /\ harness = "ethrex" /\ pc = "read" /\ ~eof
    /\ eof' = TRUE
    /\ fatal("no compute_root operation found")
    /\ UNCHANGED <<auxVars, harness, lines, ethrexVars, rethVars, phaseVars, stdout>>

\* a drain that loses the last value of the iteration
into_values_loses_one(m) ==
    LET n == Cardinality(DOMAIN m)
        orders == {f \in [1..n -> DOMAIN m] : \A i, j \in 1..n : f[i] = f[j] => i = j}
    IN {[i \in 1..(IF n > 1 THEN n - 1 ELSE n) |-> m[f[i]]] : f \in orders}

\* updates.into_values().collect(): the values in the HashMap's iteration
\* order, which is any order of its keys
into_values(m) ==
    LET n == Cardinality(DOMAIN m)
        orders == {f \in [1..n -> DOMAIN m] : \A i, j \in 1..n : f[i] = f[j] => i = j}
    IN {[i \in 1..n |-> m[f[i]]] : f \in orders}

EthrexComputeRoot ==
    /\ EthrexReading
    /\ \E line \in Workload :
        /\ line.raw # "empty"
        /\ from_str(line).ok
        /\ line.op = "compute_root"
        /\ lines' = Append(lines, line)
    /\ \E list \in into_values(updates) : update_list' = list
    /\ pc' = "trie"
    /\ UNCHANGED <<auxVars, harness, eof, ethrexVars, rethVars, put_i, tx, events,
                   peak_memory, outVars>>

\* ------------------------------------------------------------------------
\* ethrex harness: emit_result and write_updates_to_db
\* ------------------------------------------------------------------------
\* Phase 1: store.apply_account_updates_from_trie_batch
EthrexApplyUpdates ==
    /\ harness = "ethrex" /\ pc = "trie"
    /\ \/ /\ events' = events \o <<"trie_start", "trie_done">>
          /\ pc' = "begin_write"
          /\ UNCHANGED outVars
       \/ /\ events' = Append(events, "trie_start")
          /\ fatal("apply account updates")
          /\ UNCHANGED stdout
    /\ UNCHANGED <<auxVars, harness, lines, eof, ethrexVars, rethVars, update_list, put_i,
                   tx, peak_memory>>

\* Phase 2 starts: backend.begin_write()
EthrexBeginWrite ==
    /\ harness = "ethrex" /\ pc = "begin_write"
    /\ events' = Append(events, "write_start")
    /\ \/ /\ tx' = [tx EXCEPT !.begun = @ + 1]
          /\ pc' = "put_state"
          /\ UNCHANGED outVars
       \/ /\ fatal("begin write")
          /\ UNCHANGED <<tx, stdout>>
    /\ UNCHANGED <<auxVars, harness, lines, eof, ethrexVars, rethVars, update_list, put_i,
                   peak_memory>>

\* one of the three put loops over the state engine's deltas: put the next
\* entry, fail on it, or find the collection exhausted
EthrexPutLoop(here, next, msg) ==
    /\ harness = "ethrex" /\ pc = here
    /\ \/ /\ put_i < MaxNodes
          /\ tx' = [tx EXCEPT !.puts = @ + 1]
          /\ put_i' = put_i + 1
          /\ UNCHANGED <<pc, outVars>>
       \/ /\ put_i < MaxNodes
          /\ fatal(msg)
          /\ UNCHANGED <<tx, put_i, stdout>>
       \/ /\ pc' = next
          /\ put_i' = 0
          /\ UNCHANGED <<tx, outVars>>
    /\ UNCHANGED <<auxVars, harness, lines, eof, ethrexVars, rethVars, update_list, events,
                   peak_memory>>

EthrexPutStateNodes == EthrexPutLoop("put_state", "put_storage", "write state trie node")

EthrexPutStorageNodes == EthrexPutLoop("put_storage", "put_code", "write storage trie node")

EthrexPutCodes == EthrexPutLoop("put_code", "commit", "write account code")

\* a commit after which the result is emitted without sampling memory
EthrexCommit_skips_sampling ==
    /\ harness = "ethrex" /\ pc = "commit"
    /\ tx' = [tx EXCEPT !.committed = @ + 1]
    /\ events' = Append(events, "write_done")
    /\ pc' = "emit"
    /\ UNCHANGED <<auxVars, harness, lines, eof, ethrexVars, rethVars, update_list, put_i,
                   peak_memory, outVars>>

EthrexCommit ==
    /\ harness = "ethrex" /\ pc = "commit"
    /\ \/ /\ tx' = [tx EXCEPT !.committed = @ + 1]
          /\ events' = Append(events, "write_done")
          /\ pc' = "peak_memory"
          /\ UNCHANGED outVars
       \/ /\ fatal("commit writes")
          /\ UNCHANGED <<tx, events, stdout>>
    /\ UNCHANGED <<auxVars, harness, lines, eof, ethrexVars, rethVars, update_list, put_i,
                   peak_memory>>

\* get_peak_memory_bytes: VmPeak in bytes, or 0 when it cannot be read
EthrexPeakMemory ==
    /\ harness = "ethrex" /\ pc = "peak_memory"
    /\ peak_memory' \in {0, 4096}
    /\ events' = Append(events, "memory_sampled")
    /\ pc' = "emit"
    /\ UNCHANGED <<auxVars, harness, lines, eof, ethrexVars, rethVars, update_list, put_i,
                   tx, outVars>>

BenchResult(client, a, c, s, mem) ==
    [client |-> client, state_root |-> "root", accounts_created |-> a,
     contracts_created |-> c, storage_slots |-> s, peak_memory_bytes |-> mem]

\* a compute_root arm that does not return: the loop goes on reading
EthrexReturn_keeps_reading ==
    /\ pc' = "read"
    /\ exit_code' = exit_code

\* the compute_root arm returns from main: the process ends with code 0
EthrexReturn ==
    /\ pc' = "returned"
    /\ exit_code' = Some(0)

\* serde_json::to_writer(io::stdout(), &result), println!()
EthrexEmit ==
    /\ harness = "ethrex" /\ pc = "emit"
    /\ \/ /\ stdout' = Append(stdout, BenchResult("ethrex", accounts_created,
                                    contracts_created, storage_slots, peak_memory))
          /\ events' = Append(events, "emitted")
          /\ EthrexReturn
          /\ UNCHANGED stderr
       \/ /\ fatal("encode result")
          /\ UNCHANGED <<events, stdout>>
    /\ UNCHANGED <<auxVars, harness, lines, eof, ethrexVars, rethVars, update_list, put_i,
                   tx, peak_memory>>

\* ------------------------------------------------------------------------
\* reth harness: the arms of the operation match
\* ------------------------------------------------------------------------
Account(nonce, balance, bytecode_hash) ==
    [nonce |-> nonce, balance |-> balance, bytecode_hash |-> bytecode_hash]

Account_default == Account(0, 0, None)

RethState ==
    [account_map |-> account_map, pending_accounts |-> pending_accounts,
     pending_bytecodes |-> pending_bytecodes, pending_storage |-> pending_storage,
     accounts |-> accounts, contracts |-> contracts, slots |-> slots]

\* a create_account that updates the map but not the list of pending puts
reth_create_account_no_log(st, address, balance, nonce) ==
    LET account == Account(nonce, balance, None)
    IN [st EXCEPT !.account_map = Insert(@, address, account),
                  !.accounts = @ + 1]

reth_create_account(st, address, balance, nonce) ==
    LET account == Account(nonce, balance, None)
    IN [st EXCEPT !.pending_accounts = Append(@, <<keccak256(address), account>>),
                  !.account_map = Insert(@, address, account),
                  !.accounts = @ + 1]

\* a set_code that queues the updated account but leaves the map as it was
reth_set_code_skips_map(st, address, code_bytes) ==
    LET code_hash == keccak256(code_bytes)
        account == IF address \in DOMAIN st.account_map
                   THEN st.account_map[address] ELSE Account_default
        updated == [account EXCEPT !.bytecode_hash = Some(code_hash)]
    IN [st EXCEPT !.pending_bytecodes = Append(@, <<code_hash, [raw |-> code_bytes]>>),
                  !.pending_accounts = Append(@, <<keccak256(address), updated>>),
                  !.contracts = @ + 1]

\* a set_code that records the new code hash but not the code bytes
reth_set_code_drops_payload(st, address, code_bytes) ==
    LET code_hash == keccak256(code_bytes)
        account == IF address \in DOMAIN st.account_map
                   THEN st.account_map[address] ELSE Account_default
        updated == [account EXCEPT !.bytecode_hash = Some(code_hash)]
    IN [st EXCEPT !.pending_accounts = Append(@, <<keccak256(address), updated>>),
                  !.account_map = Insert(@, address, updated),
                  !.contracts = @ + 1]

reth_set_code(st, address, code_bytes) ==
    LET code_hash == keccak256(code_bytes)
        account == IF address \in DOMAIN st.account_map
                   THEN st.account_map[address] ELSE Account_default
        updated == [account EXCEPT !.bytecode_hash = Some(code_hash)]
    IN [st EXCEPT !.pending_bytecodes = Append(@, <<code_hash, [raw |-> code_bytes]>>),
                  !.pending_accounts = Append(@, <<keccak256(address), updated>>),
                  !.account_map = Insert(@, address, updated),
                  !.contracts = @ + 1]

reth_set_storage(st, address, slot, value) ==
    [st EXCEPT !.pending_storage =
                   Append(@, <<keccak256(address),
                               [key |-> keccak256(slot), value |-> value]>>),
               !.slots = @ + 1]

RethApply(st) ==
    /\ account_map' = st.account_map
    /\ pending_accounts' = st.pending_accounts
    /\ pending_bytecodes' = st.pending_bytecodes
    /\ pending_storage' = st.pending_storage
    /\ accounts' = st.accounts
    /\ contracts' = st.contracts
    /\ slots' = st.slots

RethReading == harness = "reth" /\ pc = "read" /\ ~eof /\ Len(lines) < MaxLines

RethReadError ==
    /\ RethReading
    /\ fatal("read stdin")
    /\ UNCHANGED <<auxVars, harness, lines, eof, ethrexVars, rethVars, phaseVars, stdout>>

\* every line, the empty one included, goes to serde_json::from_str
RethDecodeError ==
    /\ RethReading
    /\ \E line \in Workload :
        /\ ~from_str(line).ok
        /\ lines' = Append(lines, line)
        /\ fatal("decode operation")
    /\ UNCHANGED <<auxVars, harness, eof, ethrexVars, rethVars, phaseVars, stdout>>

RethCreateAccount ==
    /\ RethReading
    /\ \E line \in Workload :
        /\ from_str(line).ok
        /\ line.op = "create_account"
        /\ lines' = Append(lines, line)
        /\ LET address == reth_parse_address(line.address)
               balance == reth_parse_u256(line.balance)
           IN IF ~address.ok
              THEN fatal(address.msg) /\ UNCHANGED <<rethVars, stdout>>
              ELSE IF ~balance.ok
              THEN fatal(balance.msg) /\ UNCHANGED <<rethVars, stdout>>
              ELSE /\ RethApply(reth_create_account(RethState, address.val,
                                                    balance.val, line.nonce))
                   /\ UNCHANGED <<pc, outVars>>
    /\ UNCHANGED <<auxVars, harness, eof, ethrexVars, phaseVars>>

RethSetCode ==
    /\ RethReading
    /\ \E line \in Workload :
        /\ from_str(line).ok
        /\ line.op = "set_code"
        /\ lines' = Append(lines, line)
        /\ LET address == reth_parse_address(line.address)
               code_bytes == reth_parse_hex(line.code)
           IN IF ~address.ok
              THEN fatal(address.msg) /\ UNCHANGED <<rethVars, stdout>>
              ELSE IF ~code_bytes.ok
              THEN fatal(code_bytes.msg) /\ UNCHANGED <<rethVars, stdout>>
              ELSE /\ RethApply(reth_set_code(RethState, address.val, code_bytes.val))
                   /\ UNCHANGED <<pc, outVars>>
    /\ UNCHANGED <<auxVars, harness, eof, ethrexVars, phaseVars>>

RethSetStorage ==
    /\ RethReading
    /\ \E line \in Workload :
        /\ from_str(line).ok
        /\ line.op = "set_storage"
        /\ lines' = Append(lines, line)
        /\ LET address == reth_parse_address(line.address)
               slot == reth_parse_b256(line.slot)
               value == reth_parse_u256(line.value)
           IN IF ~address.ok
              THEN fatal(address.msg) /\ UNCHANGED <<rethVars, stdout>>
              ELSE IF ~slot.ok
              THEN fatal(slot.msg) /\ UNCHANGED <<rethVars, stdout>>
              ELSE IF ~value.ok
              THEN fatal(value.msg) /\ UNCHANGED <<rethVars, stdout>>
              ELSE /\ RethApply(reth_set_storage(RethState, address.val,
                                                 slot.val, value.val))
                   /\ UNCHANGED <<pc, outVars>>
    /\ UNCHANGED <<auxVars, harness, eof, ethrexVars, phaseVars>>

RethUnknownOp ==
    /\ RethReading
    /\ \E line \in Workload :
        /\ from_str(line).ok
        /\ line.op \notin {"create_account", "set_code", "set_storage", "compute_root"}
        /\ lines' = Append(lines, line)
        /\ fatal("unknown operation")
    /\ UNCHANGED <<auxVars, harness, eof, ethrexVars, rethVars, phaseVars, stdout>>

RethNoComputeRoot ==
    /\ harness = "reth" /\ pc = "read" /\ ~eof
    /\ eof' = TRUE
    /\ fatal("no compute_root operation found")
    /\ UNCHANGED <<auxVars, harness, lines, ethrexVars, rethVars, phaseVars, stdout>>

RethComputeRoot ==
    /\ RethReading
    /\ \E line \in Workload :
        /\ from_str(line).ok
        /\ line.op = "compute_root"
        /\ lines' = Append(lines, line)
    /\ pc' = "begin_write"
    /\ UNCHANGED <<auxVars, harness, eof, ethrexVars, rethVars, phaseVars, outVars>>

\* ------------------------------------------------------------------------
\* reth harness: flush_writes and emit_result
\* ------------------------------------------------------------------------
\* db.tx_mut()
RethBeginWrite ==
    /\ harness = "reth" /\ pc = "begin_write"
    /\ events' = Append(events, "write_start")
    /\ \/ /\ tx' = [tx EXCEPT !.begun = @ + 1]
          /\ pc' = "put_accounts"
          /\ UNCHANGED outVars
       \/ /\ fatal("begin write tx")
          /\ UNCHANGED <<tx, stdout>>
    /\ UNCHANGED <<auxVars, harness, lines, eof, ethrexVars, rethVars, update_list, put_i,
                   peak_memory>>

\* a put loop that passes over an entry whose put failed
RethPutLoop_skips_on_error(here, next, pending, msg) ==
    /\ harness = "reth" /\ pc = here
    /\ \/ /\ put_i < Len(pending)
          /\ tx' = [tx EXCEPT !.puts = @ + 1]
          /\ put_i' = put_i + 1
          /\ UNCHANGED <<pc, outVars>>
       \/ /\ put_i < Len(pending)
          /\ put_i' = put_i + 1
          /\ UNCHANGED <<tx, pc, outVars>>
       \/ /\ put_i = Len(pending)
          /\ pc' = next
          /\ put_i' = 0
          /\ UNCHANGED <<tx, outVars>>
    /\ UNCHANGED <<auxVars, harness, lines, eof, ethrexVars, rethVars, update_list, events,
                   peak_memory>>

\* one of the three put loops over a pending list
RethPutLoop(here, next, pending, msg) ==
    /\ harness = "reth" /\ pc = here
    /\ \/ /\ put_i < Len(pending)
          /\ tx' = [tx EXCEPT !.puts = @ + 1]
          /\ put_i' = put_i + 1
          /\ UNCHANGED <<pc, outVars>>
       \/ /\ put_i < Len(pending)
          /\ fatal(msg)
          /\ UNCHANGED <<tx, put_i, stdout>>
       \/ /\ put_i = Len(pending)
          /\ pc' = next
          /\ put_i' = 0
          /\ UNCHANGED <<tx, outVars>>
    /\ UNCHANGED <<auxVars, harness, lines, eof, ethrexVars, rethVars, update_list, events,
                   peak_memory>>

RethPutAccounts ==
    RethPutLoop("put_accounts", "put_bytecodes", pending_accounts, "put HashedAccounts")

RethPutBytecodes ==
    RethPutLoop("put_bytecodes", "put_storage", pending_bytecodes, "put Bytecodes")

RethPutStorage ==
    RethPutLoop("put_storage", "commit", pending_storage, "put HashedStorages")

RethCommit ==
    /\ harness = "reth" /\ pc = "commit"
    /\ \/ /\ tx' = [tx EXCEPT !.committed = @ + 1]
          /\ events' = Append(events, "write_done")
          /\ pc' = "trie"
          /\ UNCHANGED outVars
       \/ /\ fatal("commit tx")
          /\ UNCHANGED <<tx, events, stdout>>
    /\ UNCHANGED <<auxVars, harness, lines, eof, ethrexVars, rethVars, update_list, put_i,
                   peak_memory>>

\* a root computation whose failure is passed over
RethStateRoot_ignores_failure ==
    /\ harness = "reth" /\ pc = "trie"
    /\ \/ events' = events \o <<"trie_start", "trie_done">>
       \/ events' = Append(events, "trie_start")
    /\ pc' = "peak_memory"
    /\ UNCHANGED <<auxVars, harness, lines, eof, ethrexVars, rethVars, update_list, put_i,
                   tx, peak_memory, outVars>>

\* db.tx() and StateRoot::from_tx(&tx).root()
RethStateRoot ==
    /\ harness = "reth" /\ pc = "trie"
    /\ \/ /\ events' = events \o <<"trie_start", "trie_done">>
          /\ pc' = "peak_memory"
          /\ UNCHANGED outVars
       \/ /\ events' = Append(events, "trie_start")
          /\ \E msg \in {"begin read tx", "compute state root"} : fatal(msg)
          /\ UNCHANGED stdout
    /\ UNCHANGED <<auxVars, harness, lines, eof, ethrexVars, rethVars, update_list, put_i,
                   tx, peak_memory>>

\* peak_memory_bytes: VmHWM in bytes, or 0 when it cannot be read
RethPeakMemory ==
    /\ harness = "reth" /\ pc = "peak_memory"
    /\ peak_memory' \in {0, 4096}
    /\ events' = Append(events, "memory_sampled")
    /\ pc' = "emit"
    /\ UNCHANGED <<auxVars, harness, lines, eof, ethrexVars, rethVars, update_list, put_i,
                   tx, outVars>>

\* the compute_root arm returns from main: the process ends with code 0
RethReturn ==
    /\ pc' = "returned"
    /\ exit_code' = Some(0)

RethEmit ==
    /\ harness = "reth" /\ pc = "emit"
    /\ \/ /\ stdout' = Append(stdout, BenchResult("reth", accounts, contracts,
                                                  slots, peak_memory))
          /\ events' = Append(events, "emitted")
          /\ RethReturn
          /\ UNCHANGED stderr
       \/ /\ fatal("encode result")
          /\ UNCHANGED <<events, stdout>>
    /\ UNCHANGED <<auxVars, harness, lines, eof, ethrexVars, rethVars, update_list, put_i,
                   tx, peak_memory>>

\* ------------------------------------------------------------------------
\* Specification
\* ------------------------------------------------------------------------
Next ==
    \/ EthrexReadError
    \/ EthrexSkipEmpty
    \/ EthrexDecodeError
    \/ EthrexCreateAccount
    \/ EthrexSetCode
    \/ EthrexSetStorage
    \/ EthrexUnknownOp
    \/ EthrexNoComputeRoot
    \/ EthrexComputeRoot
    \/ EthrexApplyUpdates
    \/ EthrexBeginWrite
    \/ EthrexPutStateNodes
    \/ EthrexPutStorageNodes
    \/ EthrexPutCodes
    \/ EthrexCommit
    \/ EthrexPeakMemory
    \/ EthrexEmit
    \/ RethReadError
    \/ RethDecodeError
    \/ RethCreateAccount
    \/ RethSetCode
    \/ RethSetStorage
    \/ RethUnknownOp
    \/ RethNoComputeRoot
    \/ RethComputeRoot
    \/ RethBeginWrite
    \/ RethPutAccounts
    \/ RethPutBytecodes
    \/ RethPutStorage
    \/ RethCommit
    \/ RethStateRoot
    \/ RethPeakMemory
    \/ RethEmit

Spec == Init /\ [][Next]_vars

\* ------------------------------------------------------------------------
\* What the input says, read off the lines taken so far
\* ------------------------------------------------------------------------
\* the bytes a hex string of the workload denotes
\* (the address and slot strings of the workload are decoded once)
LongFields ==
    [s \in AddrStrs \cup {Slot1Str, Slot2Str} |-> hex_crate_decode(strip_prefix_0x(s)).val]

HexBytes(s) ==
    IF s \in DOMAIN LongFields THEN LongFields[s]
    ELSE hex_crate_decode(strip_prefix_0x(s)).val

Number(s) == from_big_endian(HexBytes(s))

Addresses == {HexBytes(a) : a \in AddrStrs}

Slots == {HexBytes(Slot1Str), HexBytes(Slot2Str)}

\* positions of the well-formed lines of one kind that name address a
Idx(kind, a) ==
    {i \in 1..Len(lines) : lines[i] \in kind /\ HexBytes(lines[i].address) = a}

\* the greatest position of a set of positions, 0 when there is none
Last(S) == IF S = {} THEN 0 ELSE CHOOSE i \in S : \A j \in S : j <= i

CountOf(kind) == Cardinality({i \in 1..Len(lines) : lines[i] \in kind})

ComputeRootSeen == \E i \in 1..Len(lines) : lines[i] = ComputeRootLine

\* addresses in the order in which the operations first name them
RECURSIVE FirstNamed(_, _)
FirstNamed(i, acc) ==
    IF i > Len(lines) THEN acc
    ELSE LET a == HexBytes(lines[i].address)
         IN IF lines[i] \in GoodLines /\ \A k \in 1..Len(acc) : acc[k] # a
            THEN FirstNamed(i + 1, Append(acc, a))
            ELSE FirstNamed(i + 1, acc)

InsertionOrder == FirstNamed(1, <<>>)

\* ------------------------------------------------------------------------
\* What a harness hands over at finalize
\* ------------------------------------------------------------------------
\* the account info handed over for address a: None or Some(info)
HandedInfo(a) ==
    IF harness = "ethrex"
    THEN LET S == {i \in 1..Len(update_list) : update_list[i].address = a}
         IN IF S = {} THEN None ELSE update_list[Last(S)].info
    ELSE LET S == {i \in 1..Len(pending_accounts) :
                      pending_accounts[i][1] = keccak256(a)}
             acct == pending_accounts[Last(S)][2]
         IN IF S = {} THEN None
            ELSE Some([code_hash |-> IF acct.bytecode_hash = None
                                     THEN EMPTY_KECCACK_HASH
                                     ELSE Unwrap(acct.bytecode_hash),
                       balance |-> acct.balance, nonce |-> acct.nonce])

\* the values handed over for slot s of address a
HandedValues(a, s) ==
    IF harness = "ethrex"
    THEN {update_list[i].added_storage[s] :
             i \in {j \in 1..Len(update_list) :
                       /\ update_list[j].address = a
                       /\ s \in DOMAIN update_list[j].added_storage}}
    ELSE {pending_storage[i][2].value :
             i \in {j \in 1..Len(pending_storage) :
                       /\ pending_storage[j][1] = keccak256(a)
                       /\ pending_storage[j][2].key = keccak256(s)}}

Counters ==
    IF harness = "ethrex"
    THEN <<accounts_created, contracts_created, storage_slots>>
    ELSE <<accounts, contracts, slots>>

IsPrefix(p, q) == Len(p) <= Len(q) /\ SubSeq(q, 1, Len(p)) = p

EthrexOrder ==
    <<"trie_start", "trie_done", "write_start", "write_done", "memory_sampled", "emitted">>

RethOrder ==
    <<"write_start", "write_done", "trie_start", "trie_done", "memory_sampled", "emitted">>

Times(e) == Cardinality({i \in 1..Len(events) : events[i] = e})

\* ------------------------------------------------------------------------
\* Claims
\* ------------------------------------------------------------------------

\* C1: when the last create_account of an address comes after its last
\* set_code, the account info handed over at finalize has that
\* create_account's balance and nonce and the code hash of the set_code.
C1_CreateAfterSetCodeKeepsCodeHash ==
    ComputeRootSeen =>
        \A a \in Addresses :
            LET sc == Last(Idx(SetCodeLines, a))
                cr == Last(Idx(CreateLines, a))
            IN (sc # 0 /\ cr > sc) =>
                   HandedInfo(a) =
                       Some([code_hash |-> keccak256(HexBytes(lines[sc].code)),
                             balance |-> Number(lines[cr].balance),
                             nonce |-> lines[cr].nonce])

\* C2: when the last set_code of an address comes after its last
\* create_account, the account info handed over at finalize has the code
\* hash of that set_code and the balance and nonce of that create_account.
C2_SetCodeAfterCreateKeepsFunds ==
    ComputeRootSeen =>
        \A a \in Addresses :
            LET sc == Last(Idx(SetCodeLines, a))
                cr == Last(Idx(CreateLines, a))
            IN (cr # 0 /\ sc > cr) =>
                   HandedInfo(a) =
                       Some([code_hash |-> keccak256(HexBytes(lines[sc].code)),
                             balance |-> Number(lines[cr].balance),
                             nonce |-> lines[cr].nonce])

C2_Witness ==
    /\ pc = "returned"
    /\ \E a \in Addresses :
          /\ Last(Idx(CreateLines, a)) # 0
          /\ Last(Idx(SetCodeLines, a)) > Last(Idx(CreateLines, a))

\* C3: for every (address, slot) written at least once, what is handed over
\* at finalize holds exactly one value for it, the value of the last
\* set_storage of that address and slot.
C3_StorageLastWriteWins ==
    ComputeRootSeen =>
        \A a \in Addresses, s \in Slots :
            LET w == Last({i \in Idx(SetStorageLines, a) : HexBytes(lines[i].slot) = s})
            IN w # 0 => HandedValues(a, s) = {Number(lines[w].value)}

\* C4: at every point of the run and in the emitted result, the three
\* counters are the numbers of create_account, set_code and set_storage
\* operations processed, repeated addresses and slots counted every time.
C4_CountersCountOperations ==
    /\ Counters = <<CountOf(CreateLines), CountOf(SetCodeLines), CountOf(SetStorageLines)>>
    /\ \A k \in 1..Len(stdout) :
          /\ stdout[k].accounts_created = CountOf(CreateLines)
          /\ stdout[k].contracts_created = CountOf(SetCodeLines)
          /\ stdout[k].storage_slots = CountOf(SetStorageLines)

C4_Witness ==
    /\ pc = "returned"
    /\ stdout[1].storage_slots = 2
    /\ stdout[1].accounts_created = 0
    /\ \E a \in Addresses, s \in Slots :
          Cardinality({i \in Idx(SetStorageLines, a) : HexBytes(lines[i].slot) = s}) = 2

\* C5: when the input ends and no compute_root was read, the run is fatal
\* with exit code 1, the output stream is empty, and neither the state
\* engine nor the store write was started.
C5_NoComputeRootIsFatal ==
    eof =>
        /\ ~ComputeRootSeen
        /\ pc = "exited"
        /\ exit_code = Some(1)
        /\ stdout = <<>>
        /\ events = <<>>
        /\ update_list = <<>>
        /\ tx = [begun |-> 0, puts |-> 0, committed |-> 0]

C5_Witness == eof /\ Len(lines) = 2 /\ Counters # <<0, 0, 0>>

\* C6: a fatal condition writes exactly one diagnostic, ends the process
\* with code 1 and leaves the output stream empty; a line that does not
\* decode is fatal; after the fatal exit no line is read and nothing
\* changes; a result is on the output stream only in runs without a
\* diagnostic, which end with code 0.
C6_FatalState ==
    /\ stderr # <<>> => Len(stderr) = 1 /\ exit_code = Some(1) /\ stdout = <<>>
    /\ exit_code = Some(1) => Len(stderr) = 1 /\ pc = "exited"
    /\ stdout # <<>> => stderr = <<>> /\ exit_code = Some(0)
    /\ (/\ lines # <<>>
        /\ lines[Len(lines)] \in BadFieldLines \cup {MalformedLine, UnknownOpLine})
           => exit_code = Some(1)

C7_NothingReadAfterComputeRoot ==
    /\ [][ComputeRootSeen =>
            /\ lines' = lines
            /\ UNCHANGED <<ethrexVars, rethVars, update_list>>
            /\ (stdout # <<>> => stdout' = stdout)
            /\ (exit_code # None => exit_code' = exit_code)]_vars
    /\ [](Times("trie_start") <= 1 /\ Times("write_start") <= 1 /\ Len(stdout) <= 1)

C7_Witness ==
    /\ pc = "returned"
    /\ Len(lines) < MaxLines
    /\ ~eof
    /\ Counters # <<0, 0, 0>>

\* C8 as claimed: in each harness the events of finalize are, in order, the
\* state-engine computation started and completed, the store write started
\* and completed, peak memory sampled, the result emitted.
C8_TrieBeforeWrite == IsPrefix(events, EthrexOrder)

\* C8 as amended: ethrex computes the trie first and then writes the store;
\* reth writes and commits the store first and then computes the state
\* root; in both, memory is sampled next and the result is emitted last.
C8_PhaseOrderPerHarness ==
    IsPrefix(events, IF harness = "ethrex" THEN EthrexOrder ELSE RethOrder)

C8_Witness == harness = "reth" /\ pc = "returned" /\ events = RethOrder /\ tx.puts > 0

\* C9 as claimed: the updates handed to the ethrex state engine are in the
\* order in which their addresses were first inserted into the accumulator.
C9_InsertionOrder ==
    (harness = "ethrex" /\ ComputeRootSeen) =>
        [i \in 1..Len(update_list) |-> update_list[i].address] = InsertionOrder

\* C9 as amended: the updates handed to the ethrex state engine are the
\* accumulated updates, one per address named by an operation, in some
\* order.
C9_SomeOrderOfTheUpdates ==
    (harness = "ethrex" /\ ComputeRootSeen) =>
        /\ Len(update_list) = Len(InsertionOrder)
        /\ \A k \in 1..Len(InsertionOrder) :
              \E i \in 1..Len(update_list) :
                  /\ update_list[i].address = InsertionOrder[k]
                  /\ update_list[i] = updates[InsertionOrder[k]]

C9_Witness ==
    /\ harness = "ethrex"
    /\ pc = "returned"
    /\ Len(update_list) = 2
    /\ update_list[1].address = InsertionOrder[2]

\* C10: an empty line before compute_root is skipped: reading it is not
\* fatal, changes no counter and no accumulated update, and the loop goes on.
C10_EmptyLineSkipped ==
    [][lines' = Append(lines, EmptyLine) =>
          /\ pc' = "read"
          /\ UNCHANGED <<ethrexVars, rethVars, outVars>>]_vars

\* ------------------------------------------------------------------------
\* The field decoders on their own: each harness applied to one hex field
\* ------------------------------------------------------------------------
HexAlphabet == {"0", "5", "a", "g"}

HexDigitStrings == UNION {[1..n -> HexAlphabet] : n \in 0..MaxHexLen}

HexFields == {pre \o d : pre \in {<<>>, <<"0", "x">>}, d \in HexDigitStrings}

InitHex ==
    /\ harness \in {"ethrex", "reth"}
    /\ ProgramStart
    /\ hex_in \in HexFields
    /\ hex_out = None
    /\ failed = {}

\* what a decoder's caller does with its result: keep the value, or the
\* process has ended inside fatal
HexResult(kind, r) ==
    /\ IF r.ok
       THEN hex_out' = Some([field |-> kind, val |-> r.val]) /\ UNCHANGED <<pc, outVars>>
       ELSE fatal(r.msg) /\ UNCHANGED <<hex_out, stdout>>
    /\ UNCHANGED <<harness, lines, eof, ethrexVars, rethVars, phaseVars, hex_in, failed>>

\* ethrex: the code field goes to hex_decode
EthrexDecodeCode ==
    /\ harness = "ethrex" /\ pc = "read" /\ hex_out = None
    /\ HexResult("code", ethrex_hex_decode(hex_in))

\* ethrex: balance and value go to parse_u256
EthrexDecodeNumber ==
    /\ harness = "ethrex" /\ pc = "read" /\ hex_out = None
    /\ HexResult("number", ethrex_parse_u256(hex_in))

\* reth: the code field goes to parse_hex
RethDecodeCode ==
    /\ harness = "reth" /\ pc = "read" /\ hex_out = None
    /\ HexResult("code", reth_parse_hex(hex_in))

\* reth: balance and value go to parse_u256
RethDecodeNumber ==
    /\ harness = "reth" /\ pc = "read" /\ hex_out = None
    /\ HexResult("number", reth_parse_u256(hex_in))

NextHex ==
    \/ EthrexDecodeCode
    \/ EthrexDecodeNumber
    \/ RethDecodeCode
    \/ RethDecodeNumber

SpecHex == InitHex /\ [][NextHex]_vars

\* the hex digits of a field, and the field with one zero nibble put before them
HexDigitsOf(s) == strip_prefix_0x(s)

ZeroPadded(s) ==
    SubSeq(s, 1, Len(s) - Len(HexDigitsOf(s))) \o <<"0">> \o HexDigitsOf(s)

OddHexField(s) ==
    /\ Len(HexDigitsOf(s)) % 2 = 1
    /\ \A i \in 1..Len(HexDigitsOf(s)) : HexDigitsOf(s)[i] \in HexChars

\* the value the running harness decodes field s to, as the given kind
DecodedAs(kind, s) ==
    IF harness = "ethrex"
    THEN (IF kind = "code" THEN ethrex_hex_decode(s) ELSE ethrex_parse_u256(s))
    ELSE (IF kind = "code" THEN reth_parse_hex(s) ELSE reth_parse_u256(s))

\* C11: in each harness a hex field with an odd number of hex digits is
\* decoded without a fatal error, to what the same field with one zero
\* nibble put before its digits decodes to.
C11_OddHexDecodes ==
    (OddHexField(hex_in) /\ (hex_out # None \/ pc = "exited")) =>
        /\ pc # "exited"
        /\ hex_out # None
        /\ DecodedAs(Unwrap(hex_out).field, ZeroPadded(hex_in)).ok
        /\ Unwrap(hex_out).val = DecodedAs(Unwrap(hex_out).field, ZeroPadded(hex_in)).val

\* C12: a set_code of an address that no create_account has named (whether
\* or not a set_storage named it before) leaves the address with zero
\* balance, zero nonce and the code hash of the supplied code, and the code
\* bytes are held for the store.
C12_SetCodeWithoutCreate ==
    \A a \in Addresses :
        LET sc == Last(Idx(SetCodeLines, a))
            c == HexBytes(lines[sc].code)
            info == [code_hash |-> keccak256(c), balance |-> 0, nonce |-> 0]
        IN (sc # 0 /\ Idx(CreateLines, a) = {}) =>
               /\ (harness = "reth" \/ ComputeRootSeen) => HandedInfo(a) = Some(info)
               /\ IF harness = "ethrex"
                  THEN /\ a \in DOMAIN updates
                       /\ updates[a].info = Some(info)
                       /\ updates[a].code = Some(Code_from_bytecode(c))
                  ELSE /\ a \in DOMAIN account_map
                       /\ account_map[a] = Account(0, 0, Some(keccak256(c)))
                       /\ \E i \in 1..Len(pending_bytecodes) :
                              pending_bytecodes[i] = <<keccak256(c), [raw |-> c]>>

C12_Witness ==
    /\ pc = "returned"
    /\ \E a \in Addresses :
           /\ Idx(CreateLines, a) = {}
           /\ \E i \in Idx(SetStorageLines, a) : i < Last(Idx(SetCodeLines, a))

\* the diagnostics of a failed begin, put or commit of the store
StoreFailures ==
    {"begin write", "write state trie node", "write storage trie node",
     "write account code", "commit writes",
     "begin write tx", "put HashedAccounts", "put Bytecodes", "put HashedStorages",
     "commit tx"}

StoreFailed == \E i \in 1..Len(stderr) : stderr[i] \in StoreFailures

\* the state part of C13
C13_Transaction ==
    /\ tx.begun <= 1 /\ tx.committed <= 1
    /\ (tx.puts > 0 \/ tx.committed > 0) => tx.begun = 1
    /\ tx.committed = 1 => ~StoreFailed
    /\ (harness = "reth" /\ tx.committed = 1) =>
           tx.puts = Len(pending_accounts) + Len(pending_bytecodes) + Len(pending_storage)
    /\ StoreFailed => (pc = "exited" /\ exit_code = Some(1) /\ tx.committed = 0 /\ stdout = <<>>)
    /\ stdout # <<>> => (tx.begun = 1 /\ tx.committed = 1)

\* C13: in each harness every put goes into the one write transaction, begun
\* once and committed at most once; the commit comes only after every put
\* succeeded; a failed begin, put or commit ends the run fatally with no
\* commit and no result, so a result exists only where the commit succeeded.
C13_SingleWriteTransaction ==
    [][/\ C13_Transaction'
       /\ tx'.begun # tx.begun => (tx.begun = 0 /\ tx.puts = 0 /\ tx.committed = 0)
       /\ tx'.puts # tx.puts =>
              (tx.begun = 1 /\ tx.committed = 0 /\ tx'.puts = tx.puts + 1)
       /\ tx'.committed # tx.committed =>
              (tx.begun = 1 /\ tx.committed = 0 /\ tx'.puts = tx.puts /\ ~StoreFailed)
       /\ stdout' # stdout => (tx.committed = 1 /\ tx' = tx)]_vars

C13_Witness ==
    /\ pc = "returned"
    /\ stdout # <<>>
    /\ tx = [begun |-> 1, puts |-> 2, committed |-> 1]

\* the addresses named by the well-formed lines of one kind read so far
NamedBy(kind) == {a \in Addresses : Idx(kind, a) # {}}

\* the positions of the account updates accumulated for address a
UpdatesOf(a) ==
    IF harness = "ethrex"
    THEN {i \in 1..Len(update_list) : update_list[i].address = a}
    ELSE {i \in 1..Len(pending_accounts) : pending_accounts[i][1] = keccak256(a)}

\* C14: in each harness what is accumulated for the finalize hand-off holds
\* exactly one account update per distinct address named by some operation.
C14_OneUpdatePerAddress ==
    /\ harness = "ethrex" => DOMAIN updates = NamedBy(GoodLines)
    /\ (harness = "reth" \/ ComputeRootSeen) =>
           \A a \in Addresses :
               Cardinality(UpdatesOf(a)) = IF a \in NamedBy(GoodLines) THEN 1 ELSE 0

\* the well-formed create_account and set_code lines read so far, in order
AccountLines == SelectSeq(lines, LAMBDA l : l \in CreateLines \cup SetCodeLines)

\* C14 as the code has it: ethrex holds one pending record per named address
\* and hands over exactly these; reth's account_map has one entry per address
\* named by a create_account or set_code, and its pending_accounts holds one
\* entry per create_account or set_code operation, in arrival order.
C14_OnePerAddressOrPerOperation ==
    IF harness = "ethrex"
    THEN /\ DOMAIN updates = NamedBy(GoodLines)
         /\ \A a \in DOMAIN updates : updates[a].address = a
         /\ ComputeRootSeen =>
                /\ Len(update_list) = Cardinality(NamedBy(GoodLines))
                /\ \A a \in Addresses :
                       Cardinality(UpdatesOf(a)) = IF a \in NamedBy(GoodLines) THEN 1 ELSE 0
    ELSE /\ DOMAIN account_map = NamedBy(CreateLines \cup SetCodeLines)
         /\ Len(pending_accounts) = Len(AccountLines)
         /\ \A i \in 1..Len(pending_accounts) :
                pending_accounts[i][1] = keccak256(HexBytes(AccountLines[i].address))

C14_Witness ==
    /\ pc = "returned"
    /\ harness = "reth"
    /\ \E a \in Addresses : Cardinality(UpdatesOf(a)) = 2

\* C15: in each harness the output stream holds nothing or exactly one
\* result record (with its newline); the record is written only after
\* compute_root was read and both measured phases completed, and its
\* counters are the counter values at the moment compute_root was read.
C15_OneResultAfterBothPhases ==
    /\ Len(stdout) <= 1
    /\ stdout # <<>> =>
           /\ lines[Len(lines)] = ComputeRootLine
           /\ Times("trie_start") = 1 /\ Times("trie_done") = 1
           /\ Times("write_start") = 1 /\ Times("write_done") = 1
           /\ events[Len(events)] = "emitted" /\ Times("emitted") = 1
           /\ stdout[1].client = harness
           /\ <<stdout[1].accounts_created, stdout[1].contracts_created,
                stdout[1].storage_slots>>
                  = <<CountOf(CreateLines), CountOf(SetCodeLines), CountOf(SetStorageLines)>>
           /\ stdout[1].peak_memory_bytes = peak_memory

C15_Witness ==
    /\ pc = "returned"
    /\ Len(stdout) = 1
    /\ stdout[1].accounts_created = 1
    /\ stdout[1].storage_slots = 1

\* C16: in every reachable state of the ethrex accumulator, a pending record
\* that holds a code payload has its account info present, with the code
\* hash equal to the hash of that payload.
C16_CodePayloadMatchesHash ==
    harness = "ethrex" =>
        \A a \in DOMAIN updates :
            updates[a].code # None =>
                /\ updates[a].info # None
                /\ Unwrap(updates[a].info).code_hash = Unwrap(updates[a].code).hash
                /\ Unwrap(updates[a].code).hash = keccak256(Unwrap(updates[a].code).bytecode)

\* the pending record of address a in mapping m, a fresh one when a has none
RecordOf(m, a) == IF a \in DOMAIN m THEN m[a] ELSE AccountUpdate_new(a)

\* balance and nonce of an optional account info, zero when it is absent
FundsOf(info) ==
    IF info = None THEN <<0, 0>> ELSE <<Unwrap(info).balance, Unwrap(info).nonce>>

\* what the step that applied line l to the ethrex accumulator may have changed
C17_Frame(l) ==
    LET a == HexBytes(l.address)
        old == RecordOf(updates, a)
        new == RecordOf(updates', a)
    IN /\ DOMAIN updates' = DOMAIN updates \cup {a}
       /\ \A b \in DOMAIN updates : b # a => updates'[b] = updates[b]
       /\ new.address = a
       /\ l \in SetStorageLines =>
              /\ new.info = old.info
              /\ new.code = old.code
              /\ DOMAIN new.added_storage = DOMAIN old.added_storage \cup {HexBytes(l.slot)}
              /\ \A s \in DOMAIN old.added_storage :
                     s # HexBytes(l.slot) => new.added_storage[s] = old.added_storage[s]
              /\ new.added_storage[HexBytes(l.slot)] = Number(l.value)
       /\ l \in CreateLines =>
              /\ new.added_storage = old.added_storage
              /\ new.code = old.code
              /\ new.info # None
              /\ FundsOf(new.info) = <<Number(l.balance), l.nonce>>
       /\ l \in SetCodeLines =>
              /\ new.added_storage = old.added_storage
              /\ new.info # None
              /\ FundsOf(new.info) = FundsOf(old.info)
              /\ Unwrap(new.info).code_hash = keccak256(HexBytes(l.code))
              /\ new.code = Some(Code_from_bytecode(HexBytes(l.code)))

\* C17: in the ethrex harness a create_account, set_code or set_storage of
\* address A leaves the pending update of every other address unchanged;
\* set_storage changes only the entry of its slot, create_account only the
\* account info, set_code only the code hash and the code payload.
C17_OperationsChangeOnlyTheirPart ==
    [][\A l \in GoodLines :
           (harness = "ethrex" /\ lines' = Append(lines, l)) => C17_Frame(l)]_vars

C17_Witness ==
    /\ harness = "ethrex"
    /\ Len(lines) = 3
    /\ \E a \in Addresses :
           /\ Idx(SetStorageLines, a) = {1}
           /\ Idx(SetCodeLines, a) = {2}
           /\ Idx(CreateLines, a) = {3}

\* tx.put of each entry of a pending list, in order, into a table in which a
\* put of a present key overwrites its value
RECURSIVE put_all(_, _, _)
put_all(table, pending, i) ==
    IF i > Len(pending) THEN table
    ELSE put_all(Insert(table, pending[i][1], pending[i][2]), pending, i + 1)

\* C18: in the reth harness, putting pending_accounts in order into an
\* overwrite-on-put table keyed by hashed address yields for every address
\* exactly the Account held in account_map, and an address is in account_map
\* exactly when pending_accounts has an entry for it.
C18_ReplayEqualsAccountMap ==
    harness = "reth" =>
        LET HashedAccounts == put_all(<<>>, pending_accounts, 1)
        IN /\ DOMAIN HashedAccounts = {keccak256(a) : a \in DOMAIN account_map}
           /\ \A a \in DOMAIN account_map :
                  HashedAccounts[keccak256(a)] = account_map[a]
           /\ \A a \in Addresses :
                  a \in DOMAIN account_map <=>
                      \E i \in 1..Len(pending_accounts) :
                          pending_accounts[i][1] = keccak256(a)
           /\ \A a \in DOMAIN account_map : HandedInfo(a) # None

C18_Witness ==
    /\ harness = "reth"
    /\ \E a, b \in DOMAIN account_map :
           /\ a # b
           /\ Cardinality({i \in 1..Len(pending_accounts) :
                              pending_accounts[i][1] = keccak256(a)}) = 2
           /\ account_map[a].bytecode_hash # None

\* ------------------------------------------------------------------------
\* The two harnesses side by side: both read loops on one and the same input
\* ------------------------------------------------------------------------
\* well-formed operations whose hex fields have an odd number of digits, or none
OddFieldLines ==
    {Line("object", "create_account", Addr1Str, <<"0", "x", "5">>, 1, <<>>, <<>>, <<>>),
     Line("object", "set_code", Addr2Str, <<>>, 0, <<"6">>, <<>>, <<>>),
     Line("object", "set_code", Addr1Str, <<>>, 0, <<"0", "x">>, <<>>, <<>>),
     Line("object", "set_storage", Addr2Str, <<>>, 0, <<>>, Slot2Str, <<"7">>)}

PairWorkload == GoodLines \cup OddFieldLines

InitPair ==
    /\ harness = "both"
    /\ ProgramStart
    /\ hex_in = <<>>
    /\ hex_out = None
    /\ failed = {}

\* ethrex's match arm on a decoded line: the accumulator after it, or the
\* diagnostic it ends with
EthrexOn(line) ==
    LET addr == ethrex_parse_address(line.address)
        balance == ethrex_parse_u256(line.balance)
        bytecode == ethrex_hex_decode(line.code)
        slot == ethrex_parse_h256(line.slot)
        value == ethrex_parse_u256(line.value)
    IN IF ~addr.ok THEN addr
       ELSE IF line.op = "create_account"
       THEN (IF ~balance.ok THEN balance
             ELSE Ok(ethrex_create_account(EthrexState, addr.val, balance.val, line.nonce)))
       ELSE IF line.op = "set_code"
       THEN (IF ~bytecode.ok THEN bytecode
             ELSE Ok(ethrex_set_code(EthrexState, addr.val, bytecode.val)))
       ELSE (IF ~slot.ok THEN slot
             ELSE IF ~value.ok THEN value
             ELSE Ok(ethrex_set_storage(EthrexState, addr.val, slot.val, value.val)))

\* reth's match arm on a decoded line
RethOn(line) ==
    LET address == reth_parse_address(line.address)
        balance == reth_parse_u256(line.balance)
        code_bytes == reth_parse_hex(line.code)
        slot == reth_parse_b256(line.slot)
        value == reth_parse_u256(line.value)
    IN IF ~address.ok THEN address
       ELSE IF line.op = "create_account"
       THEN (IF ~balance.ok THEN balance
             ELSE Ok(reth_create_account(RethState, address.val, balance.val, line.nonce)))
       ELSE IF line.op = "set_code"
       THEN (IF ~code_bytes.ok THEN code_bytes
             ELSE Ok(reth_set_code(RethState, address.val, code_bytes.val)))
       ELSE (IF ~slot.ok THEN slot
             ELSE IF ~value.ok THEN value
             ELSE Ok(reth_set_storage(RethState, address.val, slot.val, value.val)))

PairReading == harness = "both" /\ pc = "read" /\ Len(lines) < MaxPairLines

\* one create_account, set_code or set_storage line, given to each harness
\* that is still running; a harness that ends in fatal is recorded in failed
PairOperation ==
    /\ PairReading
    /\ \E line \in PairWorkload :
        /\ lines' = Append(lines, line)
        /\ IF "ethrex" \notin failed /\ EthrexOn(line).ok
           THEN EthrexApply(EthrexOn(line).val)
           ELSE UNCHANGED ethrexVars
        /\ IF "reth" \notin failed /\ RethOn(line).ok
           THEN RethApply(RethOn(line).val)
           ELSE UNCHANGED rethVars
        /\ failed' = failed \cup {h \in {"ethrex"} : ~EthrexOn(line).ok}
                            \cup {h \in {"reth"} : ~RethOn(line).ok}
    /\ UNCHANGED <<harness, pc, eof, phaseVars, outVars, hex_in, hex_out>>

\* the compute_root line: each running harness leaves its read loop with
\* what it has accumulated
PairComputeRoot ==
    /\ PairReading
    /\ lines' = Append(lines, ComputeRootLine)
    /\ pc' = "compared"
    /\ UNCHANGED <<harness, eof, ethrexVars, rethVars, phaseVars, outVars, auxVars>>

NextPair ==
    \/ PairOperation
    \/ PairComputeRoot

SpecPair == InitPair /\ [][NextPair]_vars

\* the account info each harness holds for address a at compute_root
EthrexInfo(a) == IF a \in DOMAIN updates THEN updates[a].info ELSE None

RethInfo(a) ==
    IF a \notin DOMAIN account_map THEN None
    ELSE LET acct == account_map[a]
         IN Some([code_hash |-> IF acct.bytecode_hash = None
                                THEN EMPTY_KECCACK_HASH
                                ELSE Unwrap(acct.bytecode_hash),
                  balance |-> acct.balance, nonce |-> acct.nonce])

\* C19: on any sequence of well-formed create_account, set_code and
\* set_storage operations ending in compute_root, both harnesses reach
\* compute_root with the same account info per address (reth's absent
\* bytecode hash read as the empty-code hash) and the same three counters.
C19_HarnessesAgree ==
    pc = "compared" =>
        /\ failed = {}
        /\ \A a \in Addresses : EthrexInfo(a) = RethInfo(a)
        /\ <<accounts_created, contracts_created, storage_slots>>
               = <<accounts, contracts, slots>>

====
